---- MODULE Spec2Model ----
(***************************************************************************)
(* A model of the Telegram video bot: the SQLite job store (database.py),  *)
(* the Seedance generation client (seedance.py) and the handlers that      *)
(* drive them (bot.py, handlers/).                                         *)
(*                                                                         *)
(* Python strings are sequences of one-character strings, so that len(),   *)
(* strip(), json.dumps() and json.loads() are computed, not assumed.       *)
(***************************************************************************)
EXTENDS Integers, Sequences, FiniteSets, TLC

VARIABLES
    jobs,        \* table jobs: sequence of rows, row i has id i (AUTOINCREMENT)
    sessions,    \* table user_sessions: user_id -> row or NoRow
    created,     \* history: the (photos, prompt) arguments of each create_job
    ops,         \* store calls made so far by the direct caller of Database
    raised,      \* the exception the store call just made raised, or "none"
    now,         \* the clock behind CURRENT_TIMESTAMP, in seconds
    hres,        \* the last get_user_jobs call and the rows it returned
    dfile,       \* delivery: the artifact to deliver (path, on disk or not, size)
    dout,        \* delivery: what the delivery did with it
    vraw,        \* prompt validation: the raw message text
    vres,        \* prompt validation: result of _validate_prompt, or "none"
    cmock,       \* client: config.mock_mode
    cpc,         \* client: position in generate_video
    cjob,        \* client: job_id the provider assigned, NULL before
    attempt,     \* client: the poll loop's counter
    polls,       \* client history: status requests issued
    onlyProcessing, \* client history: every status poll so far said processing
    cres,        \* client: the returned VideoGenerationResponse
    cexc,        \* client: the exception that left generate_video, or "none"
    creq,        \* client: the VideoGenerationRequest (prompt, number of images)
    videos,      \* client: the files written under video_storage_path
    max_photos,  \* config.max_photos
    files,       \* the photo files present under ./photos
    tasks,       \* the handler coroutines suspended at an await, by slot
    quota,       \* the number of jobs the run may still create
    reply        \* the verdict the photo, prompt or status handler just sent, and to whom

storeVars == <<jobs, sessions, created, ops, raised>>
validateVars == <<vraw, vres>>
historyVars == <<now, hres>>
deliverVars == <<dfile, dout>>
clientVars == <<cpc, cjob, attempt, polls, onlyProcessing, cres, cexc, creq, videos>>
botVars == <<max_photos, files, tasks, quota, reply>>
vars == <<storeVars, historyVars, deliverVars, validateVars, historyVars, cmock, clientVars, botVars>>

(***************************************************************************)
(* Strings                                                                 *)
(***************************************************************************)
QUOTE == "\""
BSLASH == "\\"
NEWLINE == "\n"
SPACE == " "

\* n copies of the character c
Rep(c, n) == [i \in 1..n |-> c]

RECURSIVE Concat(_)
\* the concatenation of a sequence of strings
Concat(ss) == IF ss = <<>> THEN <<>> ELSE Head(ss) \o Concat(Tail(ss))

IsSpace(c) == c \in {SPACE, NEWLINE}

RECURSIVE LStrip(_)
LStrip(s) == IF s # <<>> /\ IsSpace(Head(s)) THEN LStrip(Tail(s)) ELSE s

RECURSIVE RStrip(_)
RStrip(s) ==
    IF s # <<>> /\ IsSpace(s[Len(s)]) THEN RStrip(SubSeq(s, 1, Len(s) - 1)) ELSE s

\* str.strip()
Strip(s) == RStrip(LStrip(s))

\* the decimal digits, for str() of a small number
Digits == <<"0", "1", "2", "3", "4", "5", "6", "7", "8", "9">>

\* s in text
Contains(text, s) ==
    \E i \in 0..(Len(text) - Len(s)) : SubSeq(text, i + 1, i + Len(s)) = s

(***************************************************************************)
(* json.dumps / json.loads on a list of str                                *)
(***************************************************************************)
\* json's ESCAPE_ASCII for one character
EscapeChar(c) ==
    CASE c = QUOTE -> <<BSLASH, QUOTE>>
      [] c = BSLASH -> <<BSLASH, BSLASH>>
      [] c = NEWLINE -> <<BSLASH, "n">>
      [] OTHER -> <<c>>

\* a str as a JSON string literal
JsonString(s) == <<QUOTE>> \o Concat([i \in 1..Len(s) |-> EscapeChar(s[i])]) \o <<QUOTE>>

RECURSIVE JoinItems(_)
\* ", ".join(items)
JoinItems(items) ==
    IF items = <<>> THEN <<>>
    ELSE IF Len(items) = 1 THEN items[1]
    ELSE items[1] \o <<",", SPACE>> \o JoinItems(Tail(items))

\* the list written with quotes and commas but without escaping
DumpsUnescaped(photos) ==
    <<"[">> \o JoinItems([i \in 1..Len(photos) |-> <<QUOTE>> \o photos[i] \o <<QUOTE>>])
            \o <<"]">>

\* json.dumps(photos), photos a list of str
JsonDumps(photos) ==
    <<"[">> \o JoinItems([i \in 1..Len(photos) |-> JsonString(photos[i])]) \o <<"]">>

\* the outcome of a parse: ok = FALSE stands for a raised JSONDecodeError
JsonError == [ok |-> FALSE, val |-> <<>>, next |-> 0]
JsonOk(v, n) == [ok |-> TRUE, val |-> v, next |-> n]

RECURSIVE SkipWs(_, _)
SkipWs(t, i) == IF i <= Len(t) /\ IsSpace(t[i]) THEN SkipWs(t, i + 1) ELSE i

RECURSIVE ScanString(_, _, _)
\* the scanner of a string literal: t[i] is the first character after the
\* opening quote; yields the decoded str and the index after the closing quote
ScanString(t, i, acc) ==
    IF i > Len(t) THEN JsonError
    ELSE IF t[i] = QUOTE THEN JsonOk(acc, i + 1)
    ELSE IF t[i] = NEWLINE THEN JsonError
    ELSE IF t[i] = BSLASH THEN
        IF i + 1 > Len(t) THEN JsonError
        ELSE IF t[i + 1] = QUOTE THEN ScanString(t, i + 2, Append(acc, QUOTE))
        ELSE IF t[i + 1] = BSLASH THEN ScanString(t, i + 2, Append(acc, BSLASH))
        ELSE IF t[i + 1] = "n" THEN ScanString(t, i + 2, Append(acc, NEWLINE))
        ELSE JsonError
    ELSE ScanString(t, i + 1, Append(acc, t[i]))

RECURSIVE ScanItems(_, _, _)
\* the array parser after "[" or ",": expects a string literal at t[i]
ScanItems(t, i, acc) ==
    LET j == SkipWs(t, i) IN
    IF j > Len(t) \/ t[j] # QUOTE THEN JsonError
    ELSE LET r == ScanString(t, j + 1, <<>>) IN
         IF ~r.ok THEN JsonError
         ELSE LET k == SkipWs(t, r.next) IN
              IF k > Len(t) THEN JsonError
              ELSE IF t[k] = "]" THEN
                  IF SkipWs(t, k + 1) > Len(t)
                  THEN JsonOk(Append(acc, r.val), Len(t) + 1) ELSE JsonError
              ELSE IF t[k] = "," THEN ScanItems(t, k + 1, Append(acc, r.val))
              ELSE JsonError

\* json.loads(text) for a text that holds a list of str
JsonLoads(t) ==
    LET i == SkipWs(t, 1) IN
    IF i > Len(t) \/ t[i] # "[" THEN JsonError
    ELSE LET j == SkipWs(t, i + 1) IN
         IF j <= Len(t) /\ t[j] = "]" THEN
             IF SkipWs(t, j + 1) > Len(t) THEN JsonOk(<<>>, Len(t) + 1) ELSE JsonError
         ELSE ScanItems(t, i + 1, <<>>)

(***************************************************************************)
(* Database (database.py)                                                  *)
(***************************************************************************)
NumUsers == 2
Users == 1..NumUsers

\* SQL NULL / Python None in a TEXT column and in an INTEGER id column
NULL == "NULL"
NoId == 0

\* the absence of a row in user_sessions
NoRow == [state |-> "absent"]

\* the chat of a user (a private chat)
ChatOf(u) == 100 + u

\* tables after Database._init_db on a fresh file
EmptyJobs == <<>>
EmptySessions == [u \in Users |-> NoRow]

\* a context manager that commits whatever the body did
GetConnectionAlwaysCommits(before, staged, body_raised) == staged

\* what _get_connection leaves in the file: the body's writes are committed
\* when it returns and rolled back when it (or the commit) raises
_get_connection(before, staged, body_raised) ==
    IF body_raised THEN before ELSE staged

\* an id that lags one insert behind
NextJobIdStale(J) == Len(J)

\* the id create_job returns: cursor.lastrowid of an AUTOINCREMENT key
NextJobId(J) == Len(J) + 1

\* create_job with user_id and chat_id bound to each other's column
CreateJobSwapsIds(J, user_id, chat_id, photos, prompt) ==
    Append(J, [id |-> NextJobId(J), user_id |-> chat_id, chat_id |-> user_id,
               photos |-> JsonDumps(photos), prompt |-> prompt,
               status |-> "pending", seedance_job_id |-> NULL,
               video_path |-> NULL, created_at |-> now, completed_at |-> NULL,
               error_message |-> NULL])

\* jobs after create_job
create_job_jobs(J, user_id, chat_id, photos, prompt) ==
    Append(J, [id |-> NextJobId(J), user_id |-> user_id, chat_id |-> chat_id,
               photos |-> JsonDumps(photos), prompt |-> prompt,
               status |-> "pending", seedance_job_id |-> NULL,
               video_path |-> NULL, created_at |-> now, completed_at |-> NULL,
               error_message |-> NULL])

\* create_job with an UPDATE in place of the INSERT OR REPLACE
CreateJobUpdatesOnly(S, user_id, photos, prompt, job_id) ==
    IF S[user_id] = [state |-> "absent"] THEN S
    ELSE [S EXCEPT ![user_id] = [state |-> "generating", photos |-> JsonDumps(photos),
                                 current_prompt |-> prompt, last_job_id |-> job_id]]

\* user_sessions after create_job: INSERT OR REPLACE of the whole row
create_job_sessions(S, user_id, photos, prompt, job_id) ==
    [S EXCEPT ![user_id] = [state |-> "generating", photos |-> JsonDumps(photos),
                            current_prompt |-> prompt, last_job_id |-> job_id]]

\* SELECT * FROM jobs WHERE id = ?
get_job(J, job_id) == IF job_id \in 1..Len(J) THEN J[job_id] ELSE NoRow

\* the order SQLite gives rows whose created_at is equal: SQL leaves it
\* open; the sorter keeps the order of the index scan, by ascending rowid, and
\* a scan in the other direction gives descending rowid
TieOrders == {"rowid_asc", "rowid_desc"}

\* row i comes before row k under ORDER BY created_at DESC
ComesBefore(J, i, k, tie) ==
    \/ J[i].created_at > J[k].created_at
    \/ /\ J[i].created_at = J[k].created_at
       /\ IF tie = "rowid_asc" THEN i < k ELSE i > k

RECURSIVE OrderByCreatedAtDesc(_, _, _)
\* the ids in ids in the order of ORDER BY created_at DESC
OrderByCreatedAtDesc(J, ids, tie) ==
    IF ids = {} THEN <<>>
    ELSE LET first == CHOOSE i \in ids : \A k \in ids \ {i} : ComesBefore(J, i, k, tie)
         IN <<first>> \o OrderByCreatedAtDesc(J, ids \ {first}, tie)

\* the query without its WHERE clause
GetUserJobsOfAllUsers(J, user_id, limit, tie) ==
    LET sorted == OrderByCreatedAtDesc(J, 1..Len(J), tie)
        n == IF Len(sorted) < limit THEN Len(sorted) ELSE limit
    IN [p \in 1..n |-> J[sorted[p]]]

\* SELECT * FROM jobs WHERE user_id = ? ORDER BY created_at DESC LIMIT ?
get_user_jobs(J, user_id, limit, tie) ==
    LET sorted == OrderByCreatedAtDesc(J, {i \in 1..Len(J) : J[i].user_id = user_id}, tie)
        n == IF Len(sorted) < limit THEN Len(sorted) ELSE limit
    IN [p \in 1..n |-> J[sorted[p]]]

\* jobs after update_job_status
update_job_status(J, job_id, status, seedance_job_id, video_path, error_message) ==
    IF job_id \notin 1..Len(J) THEN J
    ELSE IF status = "completed" THEN
        [J EXCEPT ![job_id].status = status,
                  ![job_id].seedance_job_id = seedance_job_id,
                  ![job_id].video_path = video_path,
                  ![job_id].completed_at = "CURRENT_TIMESTAMP",
                  ![job_id].error_message = error_message]
    ELSE
        [J EXCEPT ![job_id].status = status,
                  ![job_id].seedance_job_id = seedance_job_id,
                  ![job_id].error_message = error_message]

\* SELECT * FROM jobs WHERE status = 'pending'
get_pending_jobs(J) == {i \in 1..Len(J) : J[i].status = "pending"}

get_user_session(S, user_id) == S[user_id]

\* an update that rewrites every column, with the defaults for what is not passed
UpdateUserStateOverwrites(S, user_id, state, kw) ==
    [S EXCEPT ![user_id] =
        [state |-> state,
         photos |-> JsonDumps(IF "photos" \in DOMAIN kw THEN kw.photos ELSE <<>>),
         current_prompt |-> IF "current_prompt" \in DOMAIN kw THEN kw.current_prompt
                            ELSE <<>>,
         last_job_id |-> IF "last_job_id" \in DOMAIN kw THEN kw.last_job_id ELSE 0]]

\* user_sessions after update_user_state; kw is the record of keyword arguments
update_user_state(S, user_id, state, kw) ==
    LET has(k) == k \in DOMAIN kw IN
    IF S[user_id] # NoRow THEN
        [S EXCEPT ![user_id] =
            [state |-> state,
             photos |-> IF has("photos") THEN JsonDumps(kw.photos) ELSE @.photos,
             current_prompt |-> IF has("current_prompt") THEN kw.current_prompt
                                ELSE @.current_prompt,
             last_job_id |-> IF has("last_job_id") THEN kw.last_job_id
                             ELSE @.last_job_id]]
    ELSE
        [S EXCEPT ![user_id] =
            [state |-> state,
             photos |-> JsonDumps(IF has("photos") THEN kw.photos ELSE <<>>),
             current_prompt |-> IF has("current_prompt") THEN kw.current_prompt
                                ELSE <<>>,
             last_job_id |-> IF has("last_job_id") THEN kw.last_job_id ELSE NoId]]

\* user_sessions after clear_user_session
clear_user_session(S, user_id) == [S EXCEPT ![user_id] = NoRow]

\* a reset that sets the state only
ResetKeepsPhotos(S, user_id) ==
    IF S[user_id] = [state |-> "absent"] THEN S
    ELSE [S EXCEPT ![user_id].state = "idle"]

\* user_sessions after reset_user_generation_state: an UPDATE, never an INSERT
reset_user_generation_state(S, user_id) ==
    IF S[user_id] = NoRow THEN S
    ELSE [S EXCEPT ![user_id].state = "idle",
                   ![user_id].photos = <<"[", "]">>,
                   ![user_id].current_prompt = <<>>]

(***************************************************************************)
(* PromptHandler._validate_prompt                                          *)
(***************************************************************************)
min_prompt_length == 10
max_prompt_length == 500

Stoplist == {<<"a">>, <<"i">>, <<"m", "e">>, <<"t", "e", "s", "t">>}

\* _validate_prompt with the minimum length itself rejected
ValidatePromptInclusiveMin(prompt) ==
    IF prompt = <<>> THEN "empty"
    ELSE IF Len(prompt) <= min_prompt_length THEN "too_short"
    ELSE IF Len(prompt) > max_prompt_length THEN "too_long"
    ELSE IF Strip(prompt) \in Stoplist THEN "generic"
    ELSE "None"

\* None, or the reason of the rejection message
_validate_prompt(prompt) ==
    IF prompt = <<>> THEN "empty"
    ELSE IF Len(prompt) < min_prompt_length THEN "too_short"
    ELSE IF Len(prompt) > max_prompt_length THEN "too_long"
    ELSE IF Strip(prompt) \in Stoplist THEN "generic"
    ELSE "None"

\* the values the variables of a component keep while another one is examined
StoreIdle ==
    /\ jobs = EmptyJobs /\ sessions = EmptySessions /\ created = <<>> /\ ops = 0
    /\ raised = "none"

\* no get_user_jobs call yet
NoQuery == [kind |-> "none", user |-> 0, limit |-> 0, rows |-> <<>>]
HistoryIdle == now = 0 /\ hres = NoQuery

\* no artifact and no delivery yet
NoFile == [path |-> NULL, exists |-> FALSE, size |-> 0]
NoDelivery == [by |-> "none", message |-> "none", handed |-> FALSE, raised |-> FALSE]
DeliverIdle == dfile = NoFile /\ dout = NoDelivery
ValidateIdle == vraw = <<>> /\ vres = "none"
BotIdle ==
    /\ max_photos = 4 /\ files = {}
    /\ tasks = <<>> /\ quota = 0 /\ reply = [user |-> 0, text |-> "none"]

(***************************************************************************)
(* SeedanceClient (seedance.py)                                            *)
(***************************************************************************)
max_attempts == 60

NoResponse == [job_id |-> NULL, status |-> "none", video_url |-> NULL,
               error_message |-> NULL]

\* VideoGenerationResponse(job_id, status, video_url, error_message)
Response(job_id, status, video_url, error_message) ==
    [job_id |-> job_id, status |-> status, video_url |-> video_url,
     error_message |-> error_message]

MockJobId == "mock_0123456789abcdef"
MockPath == "videos/mock_0123456789abcdef.mock"
ProviderJobId == "J"
VideoPath == "videos/J.mp4"

\* the result of _mock_generate
MockResponse == Response(MockJobId, "completed", MockPath, NULL)

\* a placeholder text that leaves the prompt line out
MockContentWithoutPrompt(job_id, prompt, nimages) ==
    <<"MOCK VIDEO PLACEHOLDER\n====================\nJob ID: ", job_id>>
    \o <<"\nImages: ", Digits[nimages + 1], "\nStatus: ready (mock mode)\n...">>

\* the text _mock_generate writes into the placeholder file; the literal
\* parts of the template and the job id are kept as single elements, the
\* prompt is inserted character by character
MockContent(job_id, prompt, nimages) ==
    <<"MOCK VIDEO PLACEHOLDER\n====================\nJob ID: ", job_id, "\nPrompt: ">>
    \o prompt
    \o <<"\nImages: ", Digits[nimages + 1], "\nStatus: ready (mock mode)\n...">>

\* a file under video_storage_path
VideoFile(path, content) == [path |-> path, content |-> content]

\* VideoGenerationRequest(prompt, images)
NoRequest == [prompt |-> <<>>, nimages |-> 0]

\* what the provider may answer to POST /generate and to GET /jobs/{id}:
\* an HTTP status that is not 200, a 200 whose body carries a status, or no
\* answer at all (the request raises)
SubmitAnswers == {"200", "500", "raise"}
PollAnswers == {"500", "pending", "processing", "completed_download_ok",
                "completed_download_failed", "failed", "unknown_status", "raise"}

\* the loop test off by one
LoopContinuesInclusive(a) == a <= max_attempts

\* the loop test of the poll loop
LoopContinues(a) == a < max_attempts

\* what one iteration of the poll loop does with the provider's answer:
\* "sleep" (go round again), a returned response, or "raise"
PollOutcome(answer) ==
    CASE answer \in {"500", "pending", "processing"} -> [kind |-> "sleep"]
      [] answer = "completed_download_ok" ->
            [kind |-> "return",
             res |-> Response(cjob, "completed", VideoPath, NULL)]
      [] answer = "completed_download_failed" ->
            [kind |-> "return",
             res |-> Response(cjob, "completed", NULL, "Failed to download video")]
      [] answer = "failed" ->
            [kind |-> "return", res |-> Response(cjob, "failed", NULL, "E")]
      [] answer = "unknown_status" -> [kind |-> "raise", exc |-> "ValueError"]
      [] OTHER -> [kind |-> "raise", exc |-> "ClientError"]

ClientIdle ==
    /\ cpc = "idle" /\ cjob = NULL /\ attempt = 0 /\ polls = 0
    /\ onlyProcessing = TRUE /\ cres = NoResponse
    /\ cexc = "none" /\ creq = NoRequest /\ videos = {}

\* the requests examined: prompts with a space, a newline, a quote, and the
\* empty prompt, with one or two images
MaxImages == 2
ClientPrompts ==
    {<<>>, <<"a", SPACE, "c", "a", "t">>, <<"x", NEWLINE, "y">>, <<QUOTE, "P", "r", "o", "m", "p", "t", ":">>}
ClientRequests == [prompt : ClientPrompts, nimages : 1..MaxImages]

InitClient ==
    /\ StoreIdle /\ HistoryIdle /\ DeliverIdle /\ ValidateIdle /\ BotIdle
    /\ cmock \in BOOLEAN /\ cpc = "start" /\ cjob = NULL /\ attempt = 0 /\ polls = 0
    /\ onlyProcessing = TRUE /\ cres = NoResponse
    /\ cexc = "none" /\ creq \in ClientRequests /\ videos = {}

\* generate_video in mock mode
MockGenerate ==
    /\ cpc = "start" /\ cmock
    /\ cpc' = "returned"
    /\ videos' = videos \cup {VideoFile(MockPath, MockContent(MockJobId, creq.prompt, creq.nimages))}
    /\ cres' = MockResponse
    /\ UNCHANGED <<storeVars, historyVars, validateVars, deliverVars, botVars, cmock, cjob, attempt, polls,
                   onlyProcessing, cexc, creq>>

\* _real_generate: POST /generate
Submit(answer) ==
    /\ cpc = "start" /\ ~cmock
    /\ CASE answer = "200" ->
              /\ cpc' = "poll" /\ cjob' = ProviderJobId /\ attempt' = 0
              /\ UNCHANGED cres
         [] answer = "500" ->
              /\ cpc' = "returned"
              /\ cres' = Response("", "failed", NULL, "API error: E")
              /\ UNCHANGED <<cjob, attempt>>
         [] OTHER ->
              /\ cpc' = "raised" /\ cexc' = "ClientError"
              /\ UNCHANGED <<cjob, attempt, cres>>
    /\ (answer # "raise" => UNCHANGED cexc)
    /\ UNCHANGED <<storeVars, historyVars, validateVars, deliverVars, botVars, cmock, polls, onlyProcessing, creq, videos>>

\* _real_generate: one iteration of the poll loop
Poll(answer) ==
    /\ cpc = "poll" /\ LoopContinues(attempt)
    /\ polls' = polls + 1
    /\ onlyProcessing' = (onlyProcessing /\ answer = "processing")
    /\ LET o == PollOutcome(answer) IN
       CASE o.kind = "sleep" -> /\ attempt' = attempt + 1
                                /\ UNCHANGED <<cpc, cres, cexc>>
         [] o.kind = "return" -> /\ cpc' = "returned" /\ cres' = o.res
                                 /\ UNCHANGED <<attempt, cexc>>
         [] OTHER -> /\ cpc' = "raised" /\ cexc' = o.exc
                     /\ UNCHANGED <<attempt, cres>>
    /\ videos' = IF answer = "completed_download_ok"
                 THEN videos \cup {VideoFile(VideoPath, <<"mp4">>)}
                 ELSE videos
    /\ UNCHANGED <<storeVars, historyVars, validateVars, deliverVars, botVars, cmock, cjob, creq>>

\* _real_generate: the loop ends without a terminal status
Timeout ==
    /\ cpc = "poll" /\ ~LoopContinues(attempt)
    /\ cpc' = "returned"
    /\ cres' = Response(cjob, "failed", NULL, "Timeout waiting for generation")
    /\ UNCHANGED <<storeVars, historyVars, validateVars, deliverVars, botVars, cmock, cjob, attempt, polls,
                   onlyProcessing, cexc, creq, videos>>

NextClient ==
    \/ MockGenerate
    \/ \E a \in SubmitAnswers : Submit(a)
    \/ \E a \in PollAnswers : Poll(a)
    \/ Timeout

SpecClient == InitClient /\ [][NextClient]_vars

(***************************************************************************)
(* Prompt validation as handle_prompt applies it: strip, then validate     *)
(***************************************************************************)
MaxPromptLen == 502
MaxPad == 1

\* the message texts tried: a stoplist word or nothing, then filler, padded
\* with whitespace on both sides
RawPrompts ==
    {Rep(SPACE, l) \o w \o Rep("x", n) \o Rep(SPACE, r) :
        l \in 0..MaxPad, r \in 0..MaxPad,
        w \in Stoplist \cup {<<>>}, n \in 0..MaxPromptLen}

InitValidate ==
    /\ StoreIdle /\ HistoryIdle /\ DeliverIdle /\ ClientIdle /\ BotIdle /\ cmock = TRUE /\ vraw \in RawPrompts /\ vres = "none"

\* handle_prompt up to the validation verdict
Validate ==
    /\ vres = "none"
    /\ vres' = _validate_prompt(Strip(vraw))
    /\ UNCHANGED <<storeVars, historyVars, vraw, deliverVars, cmock, clientVars, botVars>>

NextValidate == Validate

SpecValidate == InitValidate /\ [][NextValidate]_vars

(***************************************************************************)
(* The store driven directly: every sequence of at most MaxOps calls       *)
(***************************************************************************)
MaxOps == 3

\* photo lists handed to the store, with the characters JSON treats specially
StorePhotos ==
    { <<>>,
      << <<>> >>,
      << <<"a">> >>,
      << <<QUOTE>>, <<BSLASH, "n">> >>,
      << <<",", SPACE>>, <<"]">> >>,
      << <<NEWLINE>>, <<BSLASH>> >>,
      << <<BSLASH, QUOTE>>, <<"a", "[">> >> }

StorePrompts == {Rep("x", 10), <<"a", SPACE, QUOTE, "b">>}

JobStatuses == {"pending", "generating", "processing", "completed", "failed"}
SessionStates == {"idle", "awaiting_prompt", "generating"}

\* keyword arguments tried on update_job_status
StatusArgs ==
    { [seedance_job_id |-> NULL, video_path |-> NULL, error_message |-> NULL],
      [seedance_job_id |-> "J", video_path |-> "V", error_message |-> NULL],
      [seedance_job_id |-> NULL, video_path |-> NULL, error_message |-> "E"] }

\* keyword arguments tried on update_user_state
StateArgs ==
    { [x \in {} |-> 0],
      [photos |-> << <<"a">> >>],
      [current_prompt |-> Rep("y", 10)],
      [last_job_id |-> 1],
      [photos |-> << <<QUOTE>> >>, current_prompt |-> <<>>, last_job_id |-> 2] }

InitStore == StoreIdle /\ HistoryIdle /\ DeliverIdle /\ ValidateIdle /\ ClientIdle /\ BotIdle /\ cmock = TRUE

SCreateJob(u, photos, prompt) ==
    /\ ops < MaxOps
    /\ jobs' = create_job_jobs(jobs, u, ChatOf(u), photos, prompt)
    /\ sessions' = create_job_sessions(sessions, u, photos, prompt, NextJobId(jobs))
    /\ created' = Append(created, [photos |-> photos, prompt |-> prompt])
    /\ ops' = ops + 1 /\ raised' = "none"
    /\ UNCHANGED <<validateVars, deliverVars, historyVars, cmock, clientVars, botVars>>

\* the statements of create_job at which SQLite may raise
FailPoints == {"insert_job", "upsert_session", "commit"}

\* the tables as the transaction of create_job sees them when it raises at point
StagedAt(point, u, photos, prompt) ==
    [jobs |-> IF point = "insert_job" THEN jobs
              ELSE create_job_jobs(jobs, u, ChatOf(u), photos, prompt),
     sessions |-> IF point = "commit"
                  THEN create_job_sessions(sessions, u, photos, prompt, NextJobId(jobs))
                  ELSE sessions]

\* create_job that raises at point: the exception passes through _get_connection
SCreateJobRaises(u, photos, prompt, point) ==
    LET before == [jobs |-> jobs, sessions |-> sessions]
        after == _get_connection(before, StagedAt(point, u, photos, prompt), TRUE)
    IN
    /\ ops < MaxOps
    /\ jobs' = after.jobs
    /\ sessions' = after.sessions
    /\ ops' = ops + 1
    /\ raised' = "sqlite3.Error"
    /\ UNCHANGED <<created, validateVars, deliverVars, historyVars, cmock, clientVars, botVars>>

SUpdateJobStatus(id, status, a) ==
    /\ ops < MaxOps
    /\ jobs' = update_job_status(jobs, id, status, a.seedance_job_id,
                                 a.video_path, a.error_message)
    /\ ops' = ops + 1 /\ raised' = "none"
    /\ UNCHANGED <<sessions, created, validateVars, deliverVars, historyVars, cmock, clientVars, botVars>>

SUpdateUserState(u, state, kw) ==
    /\ ops < MaxOps
    /\ sessions' = update_user_state(sessions, u, state, kw)
    /\ ops' = ops + 1 /\ raised' = "none"
    /\ UNCHANGED <<jobs, created, validateVars, deliverVars, historyVars, cmock, clientVars, botVars>>

SClearUserSession(u) ==
    /\ ops < MaxOps
    /\ sessions' = clear_user_session(sessions, u)
    /\ ops' = ops + 1 /\ raised' = "none"
    /\ UNCHANGED <<jobs, created, validateVars, deliverVars, historyVars, cmock, clientVars, botVars>>

SResetUserGenerationState(u) ==
    /\ ops < MaxOps
    /\ sessions' = reset_user_generation_state(sessions, u)
    /\ ops' = ops + 1 /\ raised' = "none"
    /\ UNCHANGED <<jobs, created, validateVars, deliverVars, historyVars, cmock, clientVars, botVars>>

NextStore ==
    \/ \E u \in Users, ph \in StorePhotos, pr \in StorePrompts : SCreateJob(u, ph, pr)
    \/ \E u \in Users, ph \in StorePhotos, pr \in StorePrompts, pt \in FailPoints :
           SCreateJobRaises(u, ph, pr, pt)
    \/ \E id \in 1..(Len(jobs) + 1), st \in JobStatuses, a \in StatusArgs :
           SUpdateJobStatus(id, st, a)
    \/ \E u \in Users, st \in SessionStates, kw \in StateArgs : SUpdateUserState(u, st, kw)
    \/ \E u \in Users : SClearUserSession(u)
    \/ \E u \in Users : SResetUserGenerationState(u)

SpecStore == InitStore /\ [][NextStore]_vars

(***************************************************************************)
(* The job list behind /history: jobs of several users are created while   *)
(* the clock runs, and get_user_jobs is asked for a user's jobs            *)
(***************************************************************************)
\* handle_history asks for get_user_jobs(user_id, limit=10)
history_limit == 10

MaxStoredJobs == 12
MaxSwitches == 2
MaxClock == 1
MaxLimit == 2

\* how often a job in J is followed by a job of another user
Switches(J) == Cardinality({i \in 1..(Len(J) - 1) : J[i].user_id # J[i + 1].user_id})

InitHistory ==
    StoreIdle /\ HistoryIdle /\ DeliverIdle /\ ValidateIdle /\ ClientIdle /\ BotIdle /\ cmock = TRUE

\* a row as handle_history and the callers of get_user_jobs see it
Query(kind, u, limit, tie) ==
    [kind |-> kind, user |-> u, limit |-> limit,
     rows |-> get_user_jobs(jobs, u, limit, tie)]

\* create_job for user u at the current second; the runs examined change
\* from one user to another at most MaxSwitches times
HCreateJob(u) ==
    /\ Len(jobs) < MaxStoredJobs
    /\ jobs' = create_job_jobs(jobs, u, ChatOf(u), << <<"a">> >>, Rep("x", 10))
    /\ Switches(jobs') <= MaxSwitches
    /\ sessions' = create_job_sessions(sessions, u, << <<"a">> >>, Rep("x", 10),
                                       NextJobId(jobs))
    /\ hres' = NoQuery
    /\ UNCHANGED <<created, ops, raised, now, validateVars, deliverVars, cmock, clientVars, botVars>>

\* a second passes
HTick ==
    /\ now < MaxClock
    /\ now' = now + 1
    /\ hres' = NoQuery
    /\ UNCHANGED <<storeVars, validateVars, deliverVars, cmock, clientVars, botVars>>

\* get_user_jobs(u, limit)
HGetUserJobs(u, limit, tie) ==
    /\ hres' = Query("get_user_jobs", u, limit, tie)
    /\ UNCHANGED <<storeVars, now, validateVars, deliverVars, cmock, clientVars, botVars>>

\* handle_history of user u: the rows it lists
HandleHistory(u, tie) ==
    /\ hres' = Query("history", u, history_limit, tie)
    /\ UNCHANGED <<storeVars, now, validateVars, deliverVars, cmock, clientVars, botVars>>

NextHistory ==
    \/ \E u \in Users : HCreateJob(u)
    \/ HTick
    \/ \E u \in Users, limit \in 1..MaxLimit, tie \in TieOrders : HGetUserJobs(u, limit, tie)
    \/ \E u \in Users, tie \in TieOrders : HandleHistory(u, tie)

SpecHistory == InitHistory /\ [][NextHistory]_vars

(***************************************************************************)
(* Delivery of an artifact: VideoHandler.send_video and the _send_video    *)
(* that _start_generation calls, on a file that may be missing or large    *)
(***************************************************************************)
\* 50 * 1024 * 1024, the size above which send_video refuses the file
telegram_limit == 52428800

\* how far from the limit the sizes examined lie
MaxSizeOffset == 2

\* the artifacts examined: the path of a response of generate_video (None
\* after a failed download), missing or present with a size that is small or
\* around the limit
VideoSizes == {0, 1} \cup {telegram_limit + d : d \in (-MaxSizeOffset)..MaxSizeOffset}
VideoFiles ==
    {[path |-> p, exists |-> FALSE, size |-> 0] : p \in {VideoPath, MockPath, NULL}}
    \cup [path : {VideoPath, MockPath, NULL}, exists : {TRUE}, size : VideoSizes]

Delivery(by, message, handed, exc) ==
    [by |-> by, message |-> message, handed |-> handed, raised |-> exc]

\* VideoHandler.send_video; sends is whether the transport calls succeed
send_video(f, sends) ==
    LET by == "send_video" IN
    IF f.path = NULL \/ ~f.exists THEN
        \* Path(None) raises TypeError, a missing file is reported; if the
        \* report raises, the except clause reports again
        IF f.path # NULL /\ sends THEN Delivery(by, "not_found", FALSE, FALSE)
        ELSE Delivery(by, "could_not_send", FALSE, ~sends)
    ELSE IF f.size > telegram_limit THEN
        IF sends THEN Delivery(by, "too_large", FALSE, FALSE)
        ELSE Delivery(by, "could_not_send", FALSE, TRUE)
    ELSE IF sends THEN Delivery(by, "none", TRUE, FALSE)
    ELSE Delivery(by, "could_not_send", TRUE, TRUE)

\* PromptHandler._send_video; sends is whether the transport calls succeed
_send_video(f, sends) ==
    LET by == "_send_video" IN
    IF f.path = NULL \/ ~f.exists THEN
        \* None.endswith raises AttributeError, open raises FileNotFoundError
        Delivery(by, "could_not_send", FALSE, ~sends)
    ELSE IF f.path = MockPath THEN
        IF sends THEN Delivery(by, "mock_notice", FALSE, FALSE)
        ELSE Delivery(by, "could_not_send", FALSE, TRUE)
    ELSE IF sends THEN Delivery(by, "none", TRUE, FALSE)
    ELSE Delivery(by, "could_not_send", TRUE, TRUE)

InitDeliver ==
    /\ StoreIdle /\ HistoryIdle /\ ValidateIdle /\ ClientIdle /\ BotIdle /\ cmock = TRUE
    /\ dfile \in VideoFiles /\ dout = NoDelivery

\* VideoHandler.send_video on the artifact
SendVideo(sends) ==
    /\ dout' = send_video(dfile, sends)
    /\ UNCHANGED <<storeVars, historyVars, dfile, validateVars, cmock, clientVars, botVars>>

\* the delivery of the intake flow: _start_generation calls _send_video
FlowSendVideo(sends) ==
    /\ dout' = _send_video(dfile, sends)
    /\ UNCHANGED <<storeVars, historyVars, dfile, validateVars, cmock, clientVars, botVars>>

NextDeliver ==
    \/ \E sends \in BOOLEAN : SendVideo(sends)
    \/ \E sends \in BOOLEAN : FlowSendVideo(sends)

SpecDeliver == InitDeliver /\ [][NextDeliver]_vars

(***************************************************************************)
(* The bot: handlers of bot.py and handlers/, interleaved at their awaits  *)
(* (the application is built with concurrent_updates(True))                *)
(***************************************************************************)
MaxPhotosLimit == 4
MaxJobs == 2
MaxTasks == 2
MaxLoad == 4

\* the size of a run with n users, max_photos m, s coroutine slots and q jobs;
\* users weigh twice, a second user squares the number of states
Load(n, m, s, q) == n * n * m * s * q

\* the coroutine slots and the users of a run
Slots == DOMAIN tasks
BotUsers == DOMAIN sessions


\* _save_photo's file name f"{user_id}_{timestamp}_{index}.jpg": timestamp is
\* the ctime of the source file, the same in every call, so the name depends
\* on user_id and index only; the directory, timestamp and extension are left
\* out of the modelled string
PhotoPath(user_id, index) == <<Digits[user_id + 1], "_", Digits[index + 1]>>

\* the texts users send: a valid prompt and one that is too short
BotPrompts == {Rep("x", 10), Rep("x", 9) \o <<SPACE>>}

\* the responses _real_generate can return
RealResponses ==
    { Response("", "failed", NULL, "API error: E"),
      Response(ProviderJobId, "completed", VideoPath, NULL),
      Response(ProviderJobId, "completed", NULL, "Failed to download video"),
      Response(ProviderJobId, "failed", NULL, "E"),
      Response(ProviderJobId, "failed", NULL, "Timeout waiting for generation") }

\* how the awaited generate_video ends: a response, or an exception
ClientOutcomes(mock) ==
    {[kind |-> "return", res |-> r] :
        r \in IF mock THEN {MockResponse} ELSE RealResponses}
    \cup {[kind |-> "raise", res |-> NoResponse]}

IdleTask == [pc |-> "idle", user |-> 0, job_id |-> NoId, cur |-> <<>>,
             res |-> NoResponse, err |-> NULL, hist |-> "alone"]

InFlight(t) == tasks[t].pc # "idle"
Generating(t) == tasks[t].pc \notin {"idle", "saving"}

\* the slot a new coroutine takes
FreeSlot == CHOOSE t \in Slots : ~InFlight(t) /\ \A r \in Slots : r < t => InFlight(r)
HasFreeSlot == \E t \in Slots : ~InFlight(t)

\* history kept with a generation in flight: what other handlers of its user
\* have done since the job was created ("alone": nothing; "reset": exactly
\* one /reset or /cancel; "other": anything else)
NoteEvent(T, u, ev) ==
    [t \in Slots |->
        IF T[t].pc \notin {"idle", "saving"} /\ T[t].user = u
        THEN [T[t] EXCEPT !.hist = IF @ = "alone" /\ ev = "reset" THEN "reset" ELSE "other"]
        ELSE T[t]]

\* tasks after coroutine t has taken a step that leaves it as new
Step(t, new) ==
    [r \in Slots |-> IF r = t THEN new
                     ELSE NoteEvent(tasks, tasks[t].user, "other")[r]]

\* reply: the verdict the step just taken sent, NoReply if it sent none
Said(u, text) == [user |-> u, text |-> text]
NoReply == Said(0, "none")

\* the photo list of a session row, [] for no row
SessionPhotos(row) == IF row = NoRow THEN <<>> ELSE JsonLoads(row.photos).val

\* the test off by one
OverMaxPhotos(n) == n > max_photos

\* the test that rejects a photo
AtMaxPhotos(n) == n >= max_photos

\* a fresh database and no photo files, for every configuration and size of
\* run (users, max_photos, coroutine slots, jobs) within MaxLoad
Init ==
    /\ jobs = EmptyJobs /\ created = <<>> /\ ops = 0 /\ raised = "none"
    /\ HistoryIdle /\ DeliverIdle /\ ValidateIdle /\ ClientIdle
    /\ cmock \in BOOLEAN
    /\ \E n \in 1..NumUsers, m \in 1..MaxPhotosLimit, s \in 1..MaxTasks, q \in 1..MaxJobs :
          /\ Load(n, m, s, q) <= MaxLoad
          /\ sessions = [u \in 1..n |-> NoRow]
          /\ max_photos = m
          /\ tasks = [t \in 1..s |-> IdleTask]
          /\ quota = q
    /\ files = {}
    /\ reply = NoReply

\* a handle_photos that starts the session over when it turns a photo away
HandlePhotosRejectResets(u) ==
    LET current_photos == SessionPhotos(get_user_session(sessions, u)) IN
    /\ IF AtMaxPhotos(Len(current_photos))
       THEN /\ reply' = Said(u, "photo_rejected")
            /\ tasks' = NoteEvent(tasks, u, "other")
            /\ sessions' = reset_user_generation_state(sessions, u)
       ELSE /\ HasFreeSlot
            /\ tasks' = [NoteEvent(tasks, u, "other") EXCEPT ![FreeSlot] =
                            [IdleTask EXCEPT !.pc = "saving", !.user = u,
                                             !.cur = current_photos]]
            /\ reply' = NoReply
            /\ UNCHANGED sessions
    /\ UNCHANGED <<jobs, created, ops, raised, validateVars, deliverVars, historyVars, cmock,
                   clientVars, max_photos, files, quota>>

\* handle_photos up to the await in _save_photo
HandlePhotos(u) ==
    LET current_photos == SessionPhotos(get_user_session(sessions, u)) IN
    /\ IF AtMaxPhotos(Len(current_photos))
       THEN /\ reply' = Said(u, "photo_rejected")
            /\ tasks' = NoteEvent(tasks, u, "other")
       ELSE /\ HasFreeSlot
            /\ tasks' = [NoteEvent(tasks, u, "other") EXCEPT ![FreeSlot] =
                            [IdleTask EXCEPT !.pc = "saving", !.user = u,
                                             !.cur = current_photos]]
            /\ reply' = NoReply
    /\ UNCHANGED <<storeVars, validateVars, deliverVars, historyVars, cmock, clientVars, max_photos, files, quota>>

\* handle_photos after _save_photo: the download has written the file
\* (ok) or _save_photo has returned None
PhotoSaved(t, ok) ==
    LET u == tasks[t].user
        current_photos == tasks[t].cur
        file_path == PhotoPath(u, Len(current_photos))
        all_photos == Append(current_photos, file_path)
    IN
    /\ tasks[t].pc = "saving"
    /\ IF ok
       THEN /\ files' = files \cup {file_path}
            /\ sessions' = update_user_state(sessions, u, "awaiting_prompt",
                                             [photos |-> all_photos])
            /\ reply' = Said(u, IF max_photos - Len(all_photos) > 0
                                THEN "photo_saved" ELSE "all_photos")
       ELSE /\ reply' = Said(u, "photo_failed")
            /\ UNCHANGED <<files, sessions>>
    /\ tasks' = Step(t, IdleTask)
    /\ UNCHANGED <<jobs, created, ops, raised, validateVars, deliverVars, historyVars, cmock, clientVars, max_photos, quota>>

\* a handle_prompt that turns a prompt away while the session is generating
HandlePromptOneAtATime(u, text) ==
    LET prompt_text == Strip(text)
        session == get_user_session(sessions, u)
        photos == SessionPhotos(session)
        job_id == NextJobId(jobs)
        s1 == update_user_state(sessions, u, "generating",
                                [current_prompt |-> prompt_text])
        s2 == create_job_sessions(s1, u, photos, prompt_text, job_id)
    IN
    /\ IF session = NoRow THEN
            /\ reply' = Said(u, "no_session")
            /\ tasks' = NoteEvent(tasks, u, "other")
            /\ UNCHANGED <<jobs, sessions, created, quota>>
       ELSE IF photos = <<>> THEN
            /\ reply' = Said(u, "need_photos")
            /\ tasks' = NoteEvent(tasks, u, "other")
            /\ UNCHANGED <<jobs, sessions, created, quota>>
       ELSE IF session.state = "generating" THEN
            /\ reply' = Said(u, "busy")
            /\ tasks' = NoteEvent(tasks, u, "other")
            /\ UNCHANGED <<jobs, sessions, created, quota>>
       ELSE IF _validate_prompt(prompt_text) # "None" THEN
            /\ reply' = Said(u, _validate_prompt(prompt_text))
            /\ tasks' = NoteEvent(tasks, u, "other")
            /\ UNCHANGED <<jobs, sessions, created, quota>>
       ELSE /\ HasFreeSlot /\ quota > 0
            /\ quota' = quota - 1
            /\ jobs' = create_job_jobs(jobs, u, ChatOf(u), photos, prompt_text)
            /\ created' = Append(created, [photos |-> photos, prompt |-> prompt_text])
            /\ sessions' = update_user_state(s2, u, "generating",
                                             [last_job_id |-> job_id])
            /\ tasks' = [NoteEvent(tasks, u, "other") EXCEPT ![FreeSlot] =
                            [IdleTask EXCEPT !.pc = "reply_start", !.user = u,
                                             !.job_id = job_id]]
            /\ reply' = NoReply
    /\ UNCHANGED <<ops, raised, validateVars, deliverVars, historyVars, cmock, clientVars, max_photos, files>>

\* handle_prompt up to the first await of _start_generation
HandlePrompt(u, text) ==
    LET prompt_text == Strip(text)
        session == get_user_session(sessions, u)
        photos == SessionPhotos(session)
        job_id == NextJobId(jobs)
        s1 == update_user_state(sessions, u, "generating",
                                [current_prompt |-> prompt_text])
        s2 == create_job_sessions(s1, u, photos, prompt_text, job_id)
    IN
    /\ IF session = NoRow THEN
            /\ reply' = Said(u, "no_session")
            /\ tasks' = NoteEvent(tasks, u, "other")
            /\ UNCHANGED <<jobs, sessions, created, quota>>
       ELSE IF photos = <<>> THEN
            /\ reply' = Said(u, "need_photos")
            /\ tasks' = NoteEvent(tasks, u, "other")
            /\ UNCHANGED <<jobs, sessions, created, quota>>
       ELSE IF _validate_prompt(prompt_text) # "None" THEN
            /\ reply' = Said(u, _validate_prompt(prompt_text))
            /\ tasks' = NoteEvent(tasks, u, "other")
            /\ UNCHANGED <<jobs, sessions, created, quota>>
       ELSE /\ HasFreeSlot /\ quota > 0
            /\ quota' = quota - 1
            /\ jobs' = create_job_jobs(jobs, u, ChatOf(u), photos, prompt_text)
            /\ created' = Append(created, [photos |-> photos, prompt |-> prompt_text])
            /\ sessions' = update_user_state(s2, u, "generating",
                                             [last_job_id |-> job_id])
            /\ tasks' = [NoteEvent(tasks, u, "other") EXCEPT ![FreeSlot] =
                            [IdleTask EXCEPT !.pc = "reply_start", !.user = u,
                                             !.job_id = job_id]]
            /\ reply' = NoReply
    /\ UNCHANGED <<ops, raised, validateVars, deliverVars, historyVars, cmock, clientVars, max_photos, files>>

\* _start_generation: the initial reply_text returns (ok) or raises; it is
\* outside the try, so an exception ends the coroutine
StartReplied(t, ok) ==
    /\ tasks[t].pc = "reply_start"
    /\ IF ok
       THEN /\ jobs' = update_job_status(jobs, tasks[t].job_id, "generating",
                                         NULL, NULL, NULL)
            /\ tasks' = Step(t, [tasks[t] EXCEPT !.pc = "generating"])
       ELSE /\ tasks' = Step(t, IdleTask)
            /\ UNCHANGED jobs
    /\ UNCHANGED <<sessions, created, ops, raised, validateVars, deliverVars, historyVars, cmock, clientVars,
                   max_photos, files, quota>>
    /\ reply' = NoReply

\* _start_generation: the awaited generate_video ends with outcome o
GenerationReturned(t, o) ==
    /\ tasks[t].pc = "generating"
    /\ IF o.kind = "return" /\ o.res.status = "completed"
       THEN /\ jobs' = update_job_status(jobs, tasks[t].job_id, "completed",
                                         o.res.job_id, o.res.video_url, NULL)
            /\ tasks' = Step(t, [tasks[t] EXCEPT !.pc = "delivering", !.res = o.res])
       ELSE IF o.kind = "return"
       THEN /\ tasks' = Step(t, [tasks[t] EXCEPT !.pc = "edit_failed", !.res = o.res])
            /\ UNCHANGED jobs
       ELSE /\ tasks' = Step(t, [tasks[t] EXCEPT !.pc = "edit_error", !.err = "client error"])
            /\ UNCHANGED jobs
    /\ UNCHANGED <<sessions, created, ops, raised, validateVars, deliverVars, historyVars, cmock, clientVars,
                   max_photos, files, quota>>
    /\ reply' = NoReply

\* _start_generation, completed branch: the three awaits edit_text,
\* _send_video and send_message touch no stored state, so they are one step;
\* ok when none of them raised
Delivered(t, ok) ==
    /\ tasks[t].pc = "delivering"
    /\ IF ok
       THEN /\ sessions' = reset_user_generation_state(sessions, tasks[t].user)
            /\ tasks' = Step(t, IdleTask)
       ELSE /\ tasks' = Step(t, [tasks[t] EXCEPT !.pc = "edit_error", !.err = "transport error"])
            /\ UNCHANGED sessions
    /\ UNCHANGED <<jobs, created, ops, raised, validateVars, deliverVars, historyVars, cmock, clientVars,
                   max_photos, files, quota>>
    /\ reply' = NoReply

\* _start_generation, failed branch after its edit_text: the job is updated,
\* then clear_user_session(user_id) names a variable the function does not
\* have and raises NameError, which the except clause receives
FailureEdited(t, ok) ==
    /\ tasks[t].pc = "edit_failed"
    /\ IF ok
       THEN /\ jobs' = update_job_status(jobs, tasks[t].job_id, "failed",
                                         NULL, NULL, tasks[t].res.error_message)
            /\ tasks' = Step(t, [tasks[t] EXCEPT !.pc = "edit_error", !.err = "name 'user_id' is not defined"])
       ELSE /\ tasks' = Step(t, [tasks[t] EXCEPT !.pc = "edit_error", !.err = "transport error"])
            /\ UNCHANGED jobs
    /\ UNCHANGED <<sessions, created, ops, raised, validateVars, deliverVars, historyVars, cmock, clientVars,
                   max_photos, files, quota>>
    /\ reply' = NoReply

\* _start_generation, except clause after its edit_text; if that raises too
\* the coroutine ends with the exception
ErrorEdited(t, ok) ==
    /\ tasks[t].pc = "edit_error"
    /\ IF ok
       THEN /\ jobs' = update_job_status(jobs, tasks[t].job_id, "failed",
                                         NULL, NULL, tasks[t].err)
            /\ sessions' = clear_user_session(sessions, tasks[t].user)
       ELSE UNCHANGED <<jobs, sessions>>
    /\ tasks' = Step(t, IdleTask)
    /\ UNCHANGED <<created, ops, raised, validateVars, deliverVars, historyVars, cmock, clientVars,
                   max_photos, files, quota>>
    /\ reply' = NoReply

\* handle_reset: clear_user_photos, then reset_user_generation_state
HandleReset(u) ==
    LET photos == SessionPhotos(get_user_session(sessions, u)) IN
    /\ files' = files \ {photos[i] : i \in 1..Len(photos)}
    /\ sessions' = reset_user_generation_state(sessions, u)
    /\ tasks' = NoteEvent(tasks, u, "reset")
    /\ UNCHANGED <<jobs, created, ops, raised, validateVars, deliverVars, historyVars, cmock, clientVars,
                   max_photos, quota>>
    /\ reply' = NoReply

\* handle_cancel awaits handle_reset
HandleCancel(u) == HandleReset(u)

\* handle_start: the welcome reply, then the reset if the reply did not raise
HandleStart(u, ok) ==
    /\ sessions' = IF ok THEN reset_user_generation_state(sessions, u) ELSE sessions
    /\ tasks' = NoteEvent(tasks, u, "other")
    /\ UNCHANGED <<jobs, created, ops, raised, validateVars, deliverVars, historyVars, cmock, clientVars,
                   max_photos, files, quota>>
    /\ reply' = NoReply

\* handle_generate: the reset, then the request for photos
HandleGenerate(u) ==
    /\ sessions' = reset_user_generation_state(sessions, u)
    /\ tasks' = NoteEvent(tasks, u, "other")
    /\ UNCHANGED <<jobs, created, ops, raised, validateVars, deliverVars, historyVars, cmock, clientVars,
                   max_photos, files, quota>>
    /\ reply' = NoReply

\* the branch handle_status takes for user u, named after its reply
StatusBranch(u) ==
    LET session == get_user_session(sessions, u)
        job == get_job(jobs, session.last_job_id)
    IN
    IF session = NoRow \/ session.state = "idle" THEN "status_no_generation"
    ELSE IF session.last_job_id = NoId THEN "status_preparing"
    ELSE IF job = NoRow THEN "status_job_not_found"
    ELSE IF job.status = "completed" THEN "status_complete"
    ELSE IF job.status = "failed" THEN "status_failed"
    ELSE "status_in_progress"

\* handle_status that resets the session of a failed job instead of deleting it
HandleStatusResetsOnFailed(u) ==
    /\ sessions' =
          IF StatusBranch(u) \in {"status_complete", "status_failed"}
          THEN reset_user_generation_state(sessions, u)
          ELSE sessions
    /\ tasks' = NoteEvent(tasks, u, "other")
    /\ UNCHANGED <<jobs, created, ops, raised, validateVars, deliverVars, historyVars, cmock, clientVars,
                   max_photos, files, quota>>
    /\ reply' = Said(u, StatusBranch(u))

\* handle_status: the store is changed before the only await, the reply
HandleStatus(u) ==
    /\ sessions' =
          IF StatusBranch(u) = "status_complete"
          THEN reset_user_generation_state(sessions, u)
          ELSE IF StatusBranch(u) = "status_failed"
          THEN clear_user_session(sessions, u)
          ELSE sessions
    /\ tasks' = NoteEvent(tasks, u, "other")
    /\ UNCHANGED <<jobs, created, ops, raised, validateVars, deliverVars, historyVars, cmock, clientVars,
                   max_photos, files, quota>>
    /\ reply' = Said(u, StatusBranch(u))

Next ==
    \/ \E u \in BotUsers : HandlePhotos(u)
    \/ \E t \in Slots, ok \in BOOLEAN : PhotoSaved(t, ok)
    \/ \E u \in BotUsers, text \in BotPrompts : HandlePrompt(u, text)
    \/ \E t \in Slots, ok \in BOOLEAN : StartReplied(t, ok)
    \/ \E t \in Slots, o \in ClientOutcomes(cmock) : GenerationReturned(t, o)
    \/ \E t \in Slots, ok \in BOOLEAN : Delivered(t, ok)
    \/ \E t \in Slots, ok \in BOOLEAN : FailureEdited(t, ok)
    \/ \E t \in Slots, ok \in BOOLEAN : ErrorEdited(t, ok)
    \/ \E u \in BotUsers : HandleReset(u)
    \/ \E u \in BotUsers : HandleCancel(u)
    \/ \E u \in BotUsers, ok \in BOOLEAN : HandleStart(u, ok)
    \/ \E u \in BotUsers : HandleGenerate(u)
    \/ \E u \in BotUsers : HandleStatus(u)

Spec == Init /\ [][Next]_vars

\* a step of the coroutine in slot t: the call it awaits returns or raises
TaskStep(t) ==
    \/ \E ok \in BOOLEAN : PhotoSaved(t, ok)
    \/ \E ok \in BOOLEAN : StartReplied(t, ok)
    \/ \E o \in ClientOutcomes(cmock) : GenerationReturned(t, o)
    \/ \E ok \in BOOLEAN : Delivered(t, ok)
    \/ \E ok \in BOOLEAN : FailureEdited(t, ok)
    \/ \E ok \in BOOLEAN : ErrorEdited(t, ok)

\* the handlers while the process keeps running and every awaited backend or
\* transport call ends: the event loop resumes every suspended coroutine
SpecLive ==
    Init /\ [][Next]_vars /\ \A t \in 1..MaxTasks : WF_vars(t \in Slots /\ TaskStep(t))

----
\* C1: once a job is completed or failed, no update_job_status call changes
\* its status.
TerminalStatusIsFinal ==
    [][\A id \in 1..Len(jobs) :
          jobs[id].status \in {"completed", "failed"} =>
              jobs'[id].status = jobs[id].status]_vars

\* C2: one user sending photos one after another: while fewer than
\* max_photos are stored a photo is accepted and appended, the acceptance
\* that fills the list says all photos are received, and a photo sent when
\* the list is full is rejected with nothing changed.
PhotoIntake ==
    [][\A u \in BotUsers :
          LET before == SessionPhotos(sessions[u])
              after == SessionPhotos(sessions'[u])
          IN
          /\ reply' = Said(u, "photo_rejected") =>
                /\ Len(before) >= max_photos
                /\ sessions' = sessions /\ files' = files /\ jobs' = jobs
                /\ \A t \in Slots : tasks'[t].pc = tasks[t].pc
          /\ \A t \in Slots :
                /\ (tasks[t].pc = "idle" /\ tasks'[t].pc = "saving" /\ tasks'[t].user = u)
                      => Len(before) < max_photos
                /\ ( /\ tasks[t].pc = "saving" /\ tasks[t].user = u
                     /\ tasks'[t].pc = "idle" /\ tasks[t].cur = before
                     /\ reply'.text # "photo_failed" )
                      => /\ Len(after) = Len(before) + 1
                         /\ SubSeq(after, 1, Len(before)) = before
                         /\ after[Len(after)] \in files'
                         /\ reply' = Said(u, IF Len(after) = max_photos
                                             THEN "all_photos" ELSE "photo_saved")]_vars

\* with max_photos = 4 and four photos stored, a fifth has been rejected
WitnessPhotoIntake ==
    \E u \in BotUsers :
        /\ max_photos = 4
        /\ reply = Said(u, "photo_rejected")
        /\ Len(SessionPhotos(sessions[u])) = 4

\* C6: create_job appends exactly one job, pending, and in the same step
\* leaves the session of its user generating with last_job_id the new id,
\* whether or not the user had a session.
CreateJobEffect ==
    [][Len(jobs') # Len(jobs) =>
          LET id == Len(jobs') IN
          /\ id = Len(jobs) + 1
          /\ SubSeq(jobs', 1, Len(jobs)) = jobs
          /\ jobs'[id].id = id
          /\ jobs'[id].status = "pending"
          /\ sessions'[jobs'[id].user_id] # NoRow
          /\ sessions'[jobs'[id].user_id].state = "generating"
          /\ sessions'[jobs'[id].user_id].last_job_id = id
          /\ \A v \in Users \ {jobs'[id].user_id} : sessions'[v] = sessions[v]]_vars

\* a user without a session and a user with one have each created a job
WitnessCreateJobEffect ==
    /\ Len(jobs) = 3
    /\ jobs[1].user_id = 1 /\ jobs[2].user_id = 1 /\ jobs[3].user_id = 2
    /\ sessions[1].last_job_id = 2 /\ sessions[2].last_job_id = 3

\* C7: the client returns completed and no other handler of the user runs
\* meanwhile: the flow ends with the job completed and holding the
\* response's path, and the session idle, without photos and prompt, its
\* last_job_id that job.
CompletedFlowOutcome ==
    [][\A t \in Slots :
          ( /\ Generating(t) /\ tasks'[t].pc = "idle"
            /\ tasks[t].res.status = "completed" /\ tasks[t].hist = "alone" )
          => /\ jobs'[tasks[t].job_id].status = "completed"
             /\ jobs'[tasks[t].job_id].video_path = tasks[t].res.video_url
             /\ sessions'[tasks[t].user] =
                    [state |-> "idle", photos |-> JsonDumps(<<>>),
                     current_prompt |-> <<>>, last_job_id |-> tasks[t].job_id]]_vars

\* C8: the client returns failed with message m: the flow ends with the job
\* failed, its error_message m, and the session row deleted.
FailedFlowOutcome ==
    [][\A t \in Slots :
          ( /\ Generating(t) /\ tasks'[t].pc = "idle"
            /\ tasks[t].res.status = "failed" )
          => /\ jobs'[tasks[t].job_id].status = "failed"
             /\ jobs'[tasks[t].job_id].error_message = tasks[t].res.error_message
             /\ sessions'[tasks[t].user] = NoRow]_vars

\* C9: /reset or /cancel while the session is generating deletes the files
\* the session lists and leaves the session idle, and the session is still
\* there and idle when the generation in flight ends, however it ends.
ResetDuringGeneration ==
    [][\A t \in Slots :
          LET u == tasks[t].user
              listed == SessionPhotos(sessions[u])
          IN
          /\ (tasks[t].hist = "alone" /\ tasks'[t].hist = "reset") =>
                /\ \A i \in 1..Len(listed) : listed[i] \notin files'
                /\ sessions'[u] # NoRow /\ sessions'[u].state = "idle"
          /\ (Generating(t) /\ tasks'[t].pc = "idle" /\ tasks[t].hist = "reset") =>
                /\ sessions'[u] # NoRow /\ sessions'[u].state = "idle"]_vars

\* C3: validation applies empty, < 10, > 500, stoplist in this order and the
\* first failing check decides: a stripped prompt of length 9 is too short,
\* of length 501 too long, and every non-stoplist prompt of length 10..500
\* is accepted.
ValidationOrder ==
    vres # "none" =>
        LET p == Strip(vraw) IN
        /\ (Len(p) = 0 <=> vres = "empty")
        /\ (Len(p) \in 1..9 <=> vres = "too_short")
        /\ (Len(p) >= 501 <=> vres = "too_long")
        /\ (Len(p) \in 10..500 /\ p \notin Stoplist => vres = "None")

\* a prompt of 501 characters has been rejected as too long
WitnessValidationOrder == vres = "too_long" /\ Len(Strip(vraw)) = 501

\* C4: "a", "i", "me" and "test" are each rejected as too generic.
StoplistRejectedAsGeneric ==
    (vres # "none" /\ Strip(vraw) \in Stoplist) => vres = "generic"

\* C5: get_job returns the photos and the prompt create_job was given, right
\* after creation and after any later store calls.
JobRoundTrip ==
    \A id \in 1..Len(jobs) :
        /\ JsonLoads(get_job(jobs, id).photos) =
               JsonOk(created[id].photos, Len(get_job(jobs, id).photos) + 1)
        /\ get_job(jobs, id).prompt = created[id].prompt

\* a job with special characters in its photos has been created and its row
\* updated afterwards
WitnessJobRoundTrip ==
    \E id \in 1..Len(jobs) :
        /\ created[id].photos = << <<QUOTE>>, <<BSLASH, "n">> >>
        /\ jobs[id].status = "failed"
        /\ Len(jobs) > id

\* C10: live backend, submission accepted and every status poll answering
\* processing: generate_video returns failed with the timeout message after
\* exactly 60 status requests, and never issues a 61st.
TimeoutAfterMaxPolls ==
    (~cmock /\ cjob # NULL /\ onlyProcessing) =>
        /\ polls <= 60
        /\ cpc # "raised"
        /\ (cpc = "returned" =>
                /\ polls = 60
                /\ cres.status = "failed"
                /\ cres.error_message = "Timeout waiting for generation")
        /\ (polls = 60 /\ cpc = "poll" => ENABLED Timeout)

\* the client has returned after polls that all said processing
WitnessTimeoutAfterMaxPolls ==
    ~cmock /\ cjob # NULL /\ onlyProcessing /\ cpc = "returned" /\ polls = 60

\* C11: generate_video never raises; every failure the provider causes (an
\* error status of POST /generate or GET /jobs, an unknown status value, a
\* failed download, the timeout) comes back as a response with status failed
\* and a message.
GenerateVideoNeverRaises ==
    /\ cexc = "none"
    /\ cpc # "raised"
    /\ (cpc = "returned" /\ cres.error_message # NULL => cres.status = "failed")

\* C12: live backend, a poll says completed and the download does not
\* succeed: the response has status failed and names the download.
DownloadFailureReturnsFailed ==
    (~cmock /\ cpc = "returned" /\ cres.error_message = "Failed to download video") =>
        cres.status = "failed"

\* C13: simulated backend: generate_video returns completed with a non-empty
\* path, the file at that path contains the prompt, and no other result or
\* exception occurs.
MockAlwaysCompleted ==
    cmock =>
        /\ cpc \in {"start", "returned"}
        /\ cexc = "none"
        /\ (cpc = "returned" =>
                /\ cres.status = "completed"
                /\ cres.video_url \notin {NULL, ""}
                /\ \E f \in videos :
                      f.path = cres.video_url /\ Contains(f.content, creq.prompt))

\* the simulated backend has returned for a prompt with a newline in it
WitnessMockAlwaysCompleted ==
    cmock /\ cpc = "returned" /\ creq.prompt = <<"x", NEWLINE, "y">> /\ creq.nimages = 2

\* C14: a generation flow that ends through an exception after its job was
\* created (every ending but the one after a successful delivery) leaves the
\* job in status failed.
ExceptionMarksJobFailed ==
    [][\A t \in Slots :
          (Generating(t) /\ tasks[t].pc # "delivering" /\ tasks'[t].pc = "idle")
              => jobs'[tasks[t].job_id].status = "failed"]_vars

\* C15: once the flow has marked its job completed, nothing that happens
\* while the result is delivered changes any field of the job.
DeliveryErrorKeepsJob ==
    [][\A t \in Slots :
          (Generating(t) /\ jobs[tasks[t].job_id].status = "completed")
              => jobs'[tasks[t].job_id] = jobs[tasks[t].job_id]]_vars

\* C16: /status leaves every job alone and changes the session of its user
\* only: reset to idle when the last job is completed, deleted when it is
\* failed, untouched when there is no session, an idle one, no last job, a
\* missing job or a job in progress.
StatusFrame ==
    [][\A u \in BotUsers : HandleStatus(u) =>
          LET session == sessions[u]
              known == session # NoRow /\ session.state # "idle"
                         /\ session.last_job_id \in 1..Len(jobs)
              status == IF known THEN jobs[session.last_job_id].status ELSE "none"
          IN
          /\ jobs' = jobs
          /\ \A v \in BotUsers \ {u} : sessions'[v] = sessions[v]
          /\ (status = "completed" =>
                 sessions'[u] = [session EXCEPT !.state = "idle", !.photos = JsonDumps(<<>>),
                                                !.current_prompt = <<>>])
          /\ (status = "failed" => sessions'[u] = NoRow)
          /\ (status \notin {"completed", "failed"} => sessions'[u] = session)]_vars

\* /status has just deleted the session of a user whose last job failed
WitnessStatusFrame ==
    \E u \in BotUsers :
        /\ reply = Said(u, "status_failed")
        /\ sessions[u] = NoRow
        /\ \E j \in 1..Len(jobs) : jobs[j].user_id = u /\ jobs[j].status = "failed"

\* C19: a session in state idle has no photos and an empty prompt.
IdleSessionIsEmpty ==
    \A u \in BotUsers :
        (sessions[u] # NoRow /\ sessions[u].state = "idle") =>
            /\ JsonLoads(sessions[u].photos).ok
            /\ SessionPhotos(sessions[u]) = <<>>
            /\ sessions[u].current_prompt = <<>>

\* a session is idle again after a generation that had photos and a prompt
WitnessIdleSessionIsEmpty ==
    \E u \in BotUsers :
        /\ sessions[u] # NoRow /\ sessions[u].state = "idle"
        /\ sessions[u].last_job_id \in 1..Len(jobs)
        /\ jobs[sessions[u].last_job_id].status = "completed"
        /\ files # {}

\* C20: a session in state awaiting_prompt has between 1 and max_photos
\* photos, whatever handlers of its user are suspended meanwhile.
AwaitingPromptHasPhotos ==
    \A u \in BotUsers :
        (sessions[u] # NoRow /\ sessions[u].state = "awaiting_prompt") =>
            /\ JsonLoads(sessions[u].photos).ok
            /\ Len(SessionPhotos(sessions[u])) \in 1..max_photos

\* the photo list is full while another photo handler of the user, which
\* read the list before, is still saving its file
WitnessAwaitingPromptHasPhotos ==
    \E u \in BotUsers, t \in Slots :
        /\ sessions[u] # NoRow /\ sessions[u].state = "awaiting_prompt"
        /\ Len(SessionPhotos(sessions[u])) = max_photos
        /\ tasks[t].pc = "saving" /\ tasks[t].user = u
        /\ Len(tasks[t].cur) < max_photos

\* C17: /history of user u lists at most 10 jobs, each of them a job of u.
HistoryOnlyOwnJobs ==
    hres.kind = "history" =>
        /\ Len(hres.rows) <= 10
        /\ \A p \in 1..Len(hres.rows) : hres.rows[p].user_id = hres.user

\* /history has listed 10 jobs for a user who has 11, another user having one
WitnessHistoryOnlyOwnJobs ==
    /\ hres.kind = "history" /\ Len(hres.rows) = 10
    /\ Cardinality({i \in 1..Len(jobs) : jobs[i].user_id = hres.user}) = 11
    /\ \E i \in 1..Len(jobs) : jobs[i].user_id # hres.user /\ i < Len(jobs)

\* C18: get_user_jobs(u, limit) returns the user's jobs newest first (job ids
\* grow with creation): a job created later comes earlier, and every job of
\* the user left out was created before every job returned, also when jobs
\* share their created_at second.
UserJobsNewestFirst ==
    hres.kind = "get_user_jobs" =>
        /\ \A p, q \in 1..Len(hres.rows) : p < q => hres.rows[p].id > hres.rows[q].id
        /\ \A i \in 1..Len(jobs) :
              (jobs[i].user_id = hres.user /\ \A p \in 1..Len(hres.rows) : hres.rows[p].id # i)
                  => /\ Len(hres.rows) = hres.limit
                     /\ \A p \in 1..Len(hres.rows) : i < hres.rows[p].id

\* C21: update_user_state sets the state and, of photos, current_prompt and
\* last_job_id, exactly the fields passed; on an existing session the others
\* keep their stored values, on a missing one they get the defaults photos
\* [], current_prompt "" and no last_job_id. Other sessions are untouched.
UpdateUserStateFrame ==
    [][\A u \in Users, st \in SessionStates, kw \in StateArgs :
          SUpdateUserState(u, st, kw) =>
              LET old == IF sessions[u] = NoRow
                         THEN [state |-> "none", photos |-> <<"[", "]">>,
                               current_prompt |-> <<>>, last_job_id |-> NoId]
                         ELSE sessions[u]
                  new == sessions'[u]
              IN
              /\ new.state = st
              /\ new.photos = IF "photos" \in DOMAIN kw THEN JsonDumps(kw.photos)
                              ELSE old.photos
              /\ new.current_prompt = IF "current_prompt" \in DOMAIN kw
                                      THEN kw.current_prompt ELSE old.current_prompt
              /\ new.last_job_id = IF "last_job_id" \in DOMAIN kw
                                   THEN kw.last_job_id ELSE old.last_job_id
              /\ \A v \in Users \ {u} : sessions'[v] = sessions[v]
              /\ jobs' = jobs]_vars

\* a session that create_job wrote has had only its prompt replaced
WitnessUpdateUserStateFrame ==
    \E u \in Users :
        /\ sessions[u] # NoRow
        /\ sessions[u].current_prompt = Rep("y", 10)
        /\ sessions[u].state = "awaiting_prompt"
        /\ sessions[u].last_job_id = 1
        /\ jobs # <<>> /\ sessions[u].photos = jobs[1].photos
        /\ sessions[u].photos # <<"[", "]">>

\* C22: create_job is all-or-nothing: when a write inside it fails, also
\* after the job row was inserted, the call raises and neither the job row
\* nor a session change is persisted.
CreateJobAllOrNothing ==
    [][\A u \in Users, ph \in StorePhotos, pr \in StorePrompts, pt \in FailPoints :
          SCreateJobRaises(u, ph, pr, pt) =>
              /\ jobs' = jobs
              /\ sessions' = sessions
              /\ raised' # "none"]_vars

\* a create_job has just raised in a store that already holds a job and a session
WitnessCreateJobAllOrNothing ==
    /\ raised # "none"
    /\ Len(jobs) = 1
    /\ \E u \in Users : sessions[u] # NoRow /\ sessions[u].last_job_id = 1

\* C23: a delivery of the flow hands the file to the transport only if it
\* exists and is at most 50 MiB (a file of exactly 50 MiB is sent); a missing
\* file and an oversized file get their own messages and are not sent.
DeliveryChecksFile ==
    (dout.by = "_send_video" /\ ~dout.raised /\ dfile.path = VideoPath) =>
        /\ (dout.handed => dfile.exists /\ dfile.size <= telegram_limit)
        /\ (dfile.exists /\ dfile.size <= telegram_limit => dout.handed)
        /\ (~dfile.exists => dout.message = "not_found" /\ ~dout.handed)
        /\ (dfile.exists /\ dfile.size > telegram_limit =>
                dout.message = "too_large" /\ ~dout.handed)

\* C24: once a job is completed or failed, none of the photo files uploaded
\* for it exists any more.
PhotosDeletedAfterOutcome ==
    \A j \in 1..Len(jobs) :
        jobs[j].status \in {"completed", "failed"} =>
            \A i \in 1..Len(JsonLoads(jobs[j].photos).val) :
                JsonLoads(jobs[j].photos).val[i] \notin files

\* C25: the statuses written to a job form a prefix of pending, generating,
\* then one of completed and failed: generating is in place while the
\* client is awaited, and a completed or failed job is never written again.
StatusHistoryIsPrefix ==
    /\ [](\A t \in Slots :
            tasks[t].pc = "generating" => jobs[tasks[t].job_id].status = "generating")
    /\ [][\A j \in 1..Len(jobs) :
            /\ jobs'[j].status # jobs[j].status =>
                  <<jobs[j].status, jobs'[j].status>> \in
                      {<<"pending", "generating">>, <<"generating", "completed">>,
                       <<"generating", "failed">>}
            /\ jobs[j].status \in {"completed", "failed"} => jobs'[j] = jobs[j]]_vars

\* C26: every job the flow creates eventually reaches completed or failed,
\* also when /reset is handled while its generation is in flight.
EveryJobTerminates ==
    \A j \in 1..MaxJobs :
        (Len(jobs) >= j) ~> (Len(jobs) >= j /\ jobs[j].status \in {"completed", "failed"})

\* C27: a valid prompt handled while an earlier generation of the same user
\* is in flight is not turned away: it creates a second job of that user.
SecondPromptCreatesJob ==
    [][\A u \in BotUsers, text \in BotPrompts :
          (/\ HandlePrompt(u, text)
           /\ sessions[u] # NoRow
           /\ SessionPhotos(sessions[u]) # <<>>
           /\ _validate_prompt(Strip(text)) = "None"
           /\ \E t \in Slots :
                 /\ Generating(t) /\ tasks[t].user = u
                 /\ jobs[tasks[t].job_id].status \notin {"completed", "failed"})
          => /\ Len(jobs') = Len(jobs) + 1
             /\ jobs'[Len(jobs')].user_id = u
             /\ jobs'[Len(jobs')].status = "pending"]_vars

\* one user has two jobs that are neither completed nor failed, both with a
\* generation in flight
WitnessSecondPromptCreatesJob ==
    \E u \in BotUsers, t1, t2 \in Slots :
        /\ t1 # t2
        /\ Generating(t1) /\ Generating(t2)
        /\ tasks[t1].user = u /\ tasks[t2].user = u
        /\ tasks[t1].job_id # tasks[t2].job_id
        /\ jobs[tasks[t1].job_id].status \notin {"completed", "failed"}
        /\ jobs[tasks[t2].job_id].status \notin {"completed", "failed"}

\* C28: a photo the handler accepts is appended to the session's list: the
\* photos accepted before stay in the list, also when photo handlers of the
\* same user interleave around the download.
AcceptedPhotoIsAppended ==
    [][\A t \in Slots :
          PhotoSaved(t, TRUE) =>
              LET old == SessionPhotos(sessions[tasks[t].user])
                  new == SessionPhotos(sessions'[tasks[t].user])
              IN /\ Len(new) = Len(old) + 1
                 /\ \A i \in 1..Len(old) : new[i] = old[i]]_vars

\* C29: a session's last_job_id, when it has one, is the id of the job of
\* that user created last, whatever handlers of the user are suspended.
LastJobIsMostRecent ==
    \A u \in BotUsers :
        (sessions[u] # NoRow /\ sessions[u].last_job_id # NoId) =>
            /\ sessions[u].last_job_id \in 1..Len(jobs)
            /\ jobs[sessions[u].last_job_id].user_id = u
            /\ \A j \in 1..Len(jobs) :
                  jobs[j].user_id = u => j <= sessions[u].last_job_id

\* the session points at the user's second job while the generation of the
\* first is still in flight
WitnessLastJobIsMostRecent ==
    \E u \in BotUsers, t \in Slots :
        /\ sessions[u] # NoRow /\ sessions[u].last_job_id = 2
        /\ jobs[1].user_id = u /\ jobs[2].user_id = u
        /\ Generating(t) /\ tasks[t].job_id = 1

\* C30: a prompt turned away (no session, no photos, invalid prompt) and a
\* photo turned away (list already at max_photos) change nothing in the
\* store: no job is created and every session is as before.
RejectionChangesNothing ==
    [][reply'.text \in {"no_session", "need_photos", "empty", "too_short", "too_long",
                        "generic", "photo_rejected"}
          => jobs' = jobs /\ sessions' = sessions]_vars

\* a photo has just been turned away from a full list
WitnessRejectionChangesNothing ==
    \E u \in BotUsers :
        /\ reply = Said(u, "photo_rejected")
        /\ sessions[u] # NoRow /\ sessions[u].state = "awaiting_prompt"
        /\ Len(SessionPhotos(sessions[u])) = max_photos

\* C31: a job that has a video_path or a completed_at has status completed.
ArtifactOnlyOnCompleted ==
    \A j \in 1..Len(jobs) :
        (jobs[j].video_path # NULL \/ jobs[j].completed_at # NULL) =>
            jobs[j].status = "completed"

\* C32: right after handle_prompt has created a job for a user, that user's
\* session has the empty current_prompt.
JobCreationClearsPrompt ==
    [][\A u \in BotUsers, text \in BotPrompts :
          (HandlePrompt(u, text) /\ Len(jobs') = Len(jobs) + 1)
          => sessions'[u].current_prompt = <<>>]_vars

\* C33: once the service has assigned a provider job id to a submission, the
\* job holds that id whatever the outcome written (completed or failed), and
\* no later status update resets a stored id.
ProviderJobIdIsKept ==
    /\ [](\A t \in Slots :
            (/\ tasks[t].res.job_id \notin {NULL, ""}
             /\ jobs[tasks[t].job_id].status \in {"completed", "failed"})
            => jobs[tasks[t].job_id].seedance_job_id = tasks[t].res.job_id)
    /\ [][\A j \in 1..Len(jobs) :
            jobs[j].seedance_job_id # NULL =>
                jobs'[j].seedance_job_id = jobs[j].seedance_job_id]_vars

\* C34: at every point between create_job and the terminal status update of
\* a job, which is where the process may stop, the stored job is
\* pending, so get_pending_jobs returns it; and get_pending_jobs returns
\* exactly the jobs whose status is pending.
StoppedJobIsPending ==
    /\ \A t \in Slots :
          (Generating(t) /\ jobs[tasks[t].job_id].status \notin {"completed", "failed"})
          => tasks[t].job_id \in get_pending_jobs(jobs)
    /\ get_pending_jobs(jobs) = {j \in 1..Len(jobs) : jobs[j].status = "pending"}

\* C35: the terminal outcome of a job changes the user's session only if the
\* session still refers to that job: when the session is awaiting_prompt
\* again (after /reset and a new photo) or its last_job_id is another job,
\* the completion or failure of the job leaves the session as it is.
StaleOutcomeKeepsSession ==
    [][\A t \in Slots :
          (/\ Delivered(t, TRUE) \/ ErrorEdited(t, TRUE)
           /\ sessions[tasks[t].user] # NoRow
           /\ \/ sessions[tasks[t].user].state = "awaiting_prompt"
              \/ sessions[tasks[t].user].last_job_id # tasks[t].job_id)
          => sessions'[tasks[t].user] = sessions[tasks[t].user]]_vars

\* C36: /status handled while the session is awaiting_prompt removes no photo
\* from the session and does not delete it, also when the session carries
\* the last_job_id of an earlier completed or failed job.
StatusKeepsAwaitingPhotos ==
    [][\A u \in BotUsers :
          (/\ HandleStatus(u)
           /\ sessions[u] # NoRow
           /\ sessions[u].state = "awaiting_prompt")
          => /\ sessions'[u] # NoRow
             /\ SessionPhotos(sessions'[u]) = SessionPhotos(sessions[u])]_vars

\* C37: a session in state generating leaves that state only by the terminal
\* outcome of a generation of its user, by /status, /reset, /cancel,
\* /generate or /start: a photo received meanwhile does not move it to
\* awaiting_prompt.
GeneratingLeftOnlyByOutcome ==
    [][\A u \in BotUsers :
          (/\ sessions[u] # NoRow
           /\ sessions[u].state = "generating"
           /\ sessions'[u] # sessions[u]
           /\ sessions'[u] = NoRow \/ sessions'[u].state # "generating")
          => \/ \E t \in Slots :
                  /\ tasks[t].user = u
                  /\ Delivered(t, TRUE) \/ ErrorEdited(t, TRUE)
             \/ HandleStatus(u) \/ HandleReset(u) \/ HandleCancel(u)
             \/ HandleGenerate(u) \/ HandleStart(u, TRUE)]_vars

\* C38: a job with status completed has a video_path that is neither absent
\* nor empty.
CompletedJobHasArtifact ==
    \A j \in 1..Len(jobs) :
        jobs[j].status = "completed" => jobs[j].video_path \notin {NULL, ""}

\* C39: the file of a photo accepted into a session is never written at a
\* path listed in the photos of an earlier job of the same user.
UploadSparesJobPhotos ==
    [][\A t \in Slots :
          PhotoSaved(t, TRUE) =>
              \A j \in 1..Len(jobs) :
                  jobs[j].user_id = tasks[t].user =>
                      \A i \in 1..Len(JsonLoads(jobs[j].photos).val) :
                          JsonLoads(jobs[j].photos).val[i] #
                              PhotoPath(tasks[t].user, Len(tasks[t].cur))]_vars

\* C40: a session's last_job_id, when it has one, is the id of a stored job
\* whose user_id is the session's user, and handle_status never takes its
\* 'job not found' branch.
LastJobIdNamesOwnJob ==
    /\ [](\A u \in BotUsers :
            (sessions[u] # NoRow /\ sessions[u].last_job_id # NoId) =>
                /\ get_job(jobs, sessions[u].last_job_id) # NoRow
                /\ get_job(jobs, sessions[u].last_job_id).user_id = u)
    /\ [][\A u \in BotUsers :
            HandleStatus(u) => reply'.text # "status_job_not_found"]_vars

\* /status has just looked up the job the session names and found it in
\* progress
WitnessLastJobIdNamesOwnJob ==
    \E u \in BotUsers :
        /\ reply = Said(u, "status_in_progress")
        /\ sessions[u] # NoRow /\ sessions[u].last_job_id # NoId
        /\ get_job(jobs, sessions[u].last_job_id).user_id = u

====
